---- MODULE Spec2Model ----
(***************************************************************************)
(* The todo service of src/todos: the create handler (create.py) and the   *)
(* update handler (update.py), run as concurrent invocations against one   *)
(* shared DynamoDB table.                                                  *)
(*                                                                         *)
(* Strings are sequences of one-character strings.  A value of any of the  *)
(* three layers (JSON document, Python object, DynamoDB attribute) is a    *)
(* record [type, s, n, b]: `type` names the type within its layer and      *)
(* exactly one of s / n / b carries the payload.  A Python float is        *)
(* carried as an exact count of clock ticks (TicksPerSec ticks = 1 second).*)
(***************************************************************************)
EXTENDS Integers, Sequences, FiniteSets, TLC

VARIABLES
    store,          \* the DynamoDB table: id string -> item (attribute name -> DynamoDB value)
    clock,          \* the wall clock read by time.time(), in ticks
    lastTimestamp,  \* uuid._last_timestamp, the state uuid.uuid1() keeps between calls
    inv,            \* the handler invocations: slot -> call frame (position and locals)
    calls,          \* invocations started so far
    created,        \* history: ids written by create's put_item
    creates,        \* history: number of put_item calls made by create
    lastApplied     \* history: id -> request values of the update whose update_item ran last

vars == <<store, clock, lastTimestamp, inv, calls, created, creates, lastApplied>>

(* ------------------------------ bounds -------------------------------- *)

MaxOverlapCalls == 2  \* invocations started in one behaviour when they may overlap
MaxCalls == 3         \* invocations started in one behaviour when made one after another
MaxTicks == 2         \* clock ticks that may pass in one behaviour
StartClock == 6000    \* the clock reading at the start (3.0 s)

(* ------------------------- time and numbers --------------------------- *)

\* update.py:23 multiplies seconds by 1000 to get milliseconds.
MsPerSec == 1000

\* Resolution of the float time.time() returns: finer than a millisecond.
TicksPerMs == 2

TicksPerSec == TicksPerMs * MsPerSec

DigitChars == <<"0", "1", "2", "3", "4", "5", "6", "7", "8", "9">>

RECURSIVE Digits(_)
\* str(n) for an integer n >= 0: its decimal digits.
Digits(n) ==
    IF n < 10 THEN <<DigitChars[n + 1]>>
    ELSE Digits(n \div 10) \o <<DigitChars[(n % 10) + 1]>>

RECURSIVE FracDigits(_)
\* The decimal digits of rem / TicksPerSec after the point, by long division.
FracDigits(rem) ==
    IF rem = 0 THEN <<>>
    ELSE <<DigitChars[((rem * 10) \div TicksPerSec) + 1]>>
         \o FracDigits((rem * 10) % TicksPerSec)

\* str(time.time()): the float of `ticks` ticks printed in seconds, "3.0", "2.9995".
StrFloat(ticks) ==
    Digits(ticks \div TicksPerSec) \o <<".">> \o
    (IF ticks % TicksPerSec = 0 THEN <<"0">> ELSE FracDigits(ticks % TicksPerSec))

\* Mutant of IntMillis: the "* 1000" is left out, int(time.time()).
IntMillisNoScale(ticks) == ticks \div TicksPerSec

\* int(time.time() * 1000): whole milliseconds, the fraction dropped.
IntMillis(ticks) == (ticks * MsPerSec) \div TicksPerSec

(* --------------------------- typed values ----------------------------- *)

V(type, s, n, b) == [type |-> type, s |-> s, n |-> n, b |-> b]

JString(s) == V("string", s, 0, FALSE)
JBoolean(b) == V("boolean", <<>>, 0, b)
JNumber(n) == V("number", <<>>, n, FALSE)

PyStr(s) == V("str", s, 0, FALSE)
PyBool(b) == V("bool", <<>>, 0, b)
PyInt(n) == V("int", <<>>, n, FALSE)
PyDecimal(n) == V("Decimal", <<>>, n, FALSE)

DdbS(s) == V("S", s, 0, FALSE)
DdbBOOL(b) == V("BOOL", <<>>, 0, b)
DdbN(n) == V("N", <<>>, n, FALSE)

\* A value json.dumps cannot encode (TypeError).
Unencodable == V("TypeError", <<>>, 0, FALSE)

EmptyDict == [k \in {} |-> Unencodable]

\* json.loads on one JSON value.
LoadValue(j) ==
    CASE j.type = "string" -> PyStr(j.s)
      [] j.type = "boolean" -> PyBool(j.b)
      [] j.type = "number" -> PyInt(j.n)

\* json.loads(event['body'])
JsonLoads(body) == [k \in DOMAIN body |-> LoadValue(body[k])]

\* json.dumps with the default encoder on one Python value.
DumpValue(v) ==
    CASE v.type = "str" -> JString(v.s)
      [] v.type = "bool" -> JBoolean(v.b)
      [] v.type = "int" -> JNumber(v.n)
      [] OTHER -> Unencodable

\* json.dumps(item)
JsonDumps(d) == [k \in DOMAIN d |-> DumpValue(d[k])]

\* decimalencoder.DecimalEncoder: a Decimal is re-encoded as a plain number.
DecimalEncoderValue(v) ==
    IF v.type = "Decimal" THEN JNumber(v.n) ELSE DumpValue(v)

\* json.dumps(attributes, cls=decimalencoder.DecimalEncoder)
JsonDumpsDecimal(d) == [k \in DOMAIN d |-> DecimalEncoderValue(d[k])]

\* boto3's serializer: Python value -> DynamoDB attribute value.
Serialize(v) ==
    CASE v.type = "str" -> DdbS(v.s)
      [] v.type = "bool" -> DdbBOOL(v.b)
      [] v.type = "int" -> DdbN(v.n)

\* boto3's deserializer: DynamoDB attribute value -> Python value.
Deserialize(a) ==
    CASE a.type = "S" -> PyStr(a.s)
      [] a.type = "BOOL" -> PyBool(a.b)
      [] a.type = "N" -> PyDecimal(a.n)

(* ----------------------------- the store ------------------------------ *)

\* table.put_item(Item=item): the item replaces whatever is stored under its id.
PutItem(st, item) ==
    LET key == item["id"].s
    IN  [i \in DOMAIN st \cup {key} |->
            IF i = key THEN [k \in DOMAIN item |-> Serialize(item[k])] ELSE st[i]]

\* The item update_item works on: the stored one, or a new one holding only the key.
ItemForKey(st, key) ==
    IF key \in DOMAIN st THEN st[key] ELSE [k \in {"id"} |-> DdbS(key)]

\* Mutant of SetExpression: "checked = :checked" is left out of the expression.
SetExpressionNoChecked(old, text, checked, updatedAt) ==
    [k \in DOMAIN old \cup {"text", "updatedAt"} |->
        CASE k = "text" -> Serialize(text)
          [] k = "updatedAt" -> Serialize(updatedAt)
          [] OTHER -> old[k]]

\* Mutant of SetExpression: #todo_text is not mapped to the attribute name text.
SetExpressionWrongName(old, text, checked, updatedAt) ==
    [k \in DOMAIN old \cup {"#todo_text", "checked", "updatedAt"} |->
        CASE k = "#todo_text" -> Serialize(text)
          [] k = "checked" -> Serialize(checked)
          [] k = "updatedAt" -> Serialize(updatedAt)
          [] OTHER -> old[k]]

\* Mutant of SetExpression: the expression also sets createdAt.
SetExpressionSetsCreatedAt(old, text, checked, updatedAt) ==
    [k \in DOMAIN old \cup {"text", "checked", "createdAt", "updatedAt"} |->
        CASE k = "text" -> Serialize(text)
          [] k = "checked" -> Serialize(checked)
          [] k \in {"createdAt", "updatedAt"} -> Serialize(updatedAt)
          [] OTHER -> old[k]]

\* Mutant of SetExpression: updatedAt only moves forward, an older one is dropped.
SetExpressionKeepsNewest(old, text, checked, updatedAt) ==
    [k \in DOMAIN old \cup {"text", "checked", "updatedAt"} |->
        CASE k = "text" -> Serialize(text)
          [] k = "checked" -> Serialize(checked)
          [] k = "updatedAt" ->
                IF /\ "updatedAt" \in DOMAIN old
                   /\ old["updatedAt"].type = "N"
                   /\ old["updatedAt"].n > updatedAt.n
                THEN old["updatedAt"] ELSE Serialize(updatedAt)
          [] OTHER -> old[k]]

\* The UpdateExpression: SET #todo_text = :text, checked = :checked, updatedAt = :updatedAt
SetExpression(old, text, checked, updatedAt) ==
    [k \in DOMAIN old \cup {"text", "checked", "updatedAt"} |->
        CASE k = "text" -> Serialize(text)
          [] k = "checked" -> Serialize(checked)
          [] k = "updatedAt" -> Serialize(updatedAt)
          [] OTHER -> old[k]]

\* Mutant of UpdateItem: the update is applied only to a record that exists.
UpdateItemIfExists(st, key, text, checked, updatedAt) ==
    [i \in DOMAIN st |->
        IF i = key THEN SetExpression(st[key], text, checked, updatedAt)
        ELSE st[i]]

\* table.update_item(Key={'id': key}, ...): one atomic write of the record under key.
UpdateItem(st, key, text, checked, updatedAt) ==
    [i \in DOMAIN st \cup {key} |->
        IF i = key THEN SetExpression(ItemForKey(st, key), text, checked, updatedAt)
        ELSE st[i]]

\* ReturnValues='ALL_NEW': result['Attributes'], every attribute after the update.
AllNew(st, key) ==
    IF key \in DOMAIN st THEN [k \in DOMAIN st[key] |-> Deserialize(st[key][k])]
    ELSE EmptyDict

(* --------------------------- the requests ----------------------------- *)

\* The invocation slots: two invocations can be in flight at once.
Procs == {"p", "q"}

Texts == {<<"a">>, <<"b">>}

\* A path id that names no uuid: uuid strings end in "-n".
ForeignId == <<"x">>

\* The request bodies: JSON objects holding any of text (string) and checked (boolean).
Bodies ==
    UNION {
        {b \in [K -> {JString(t) : t \in Texts} \cup {JBoolean(c) : c \in BOOLEAN}] :
            /\ ("text" \in K => b["text"].type = "string")
            /\ ("checked" \in K => b["checked"].type = "boolean")}
        : K \in SUBSET {"text", "checked"}}

PyNone == V("NoneType", <<>>, 0, FALSE)

NoResponse == [statusCode |-> 0, body |-> EmptyDict]

\* A slot with no invocation in it.
Idle ==
    [pc |-> "idle", kind |-> "none", body |-> EmptyDict, pathId |-> <<>>,
     data |-> EmptyDict, timestamp |-> PyNone, item |-> EmptyDict,
     response |-> NoResponse, error |-> "", writes |-> 0]

Init ==
    /\ store = [i \in {} |-> EmptyDict]
    /\ clock = StartClock
    /\ lastTimestamp = 0
    /\ inv = [p \in Procs |-> Idle]
    /\ calls = 0
    /\ created = {}
    /\ creates = 0
    /\ lastApplied = [i \in {} |-> EmptyDict]

\* Time passes.
Tick ==
    /\ clock < StartClock + MaxTicks
    /\ clock' = clock + 1
    /\ UNCHANGED <<store, lastTimestamp, inv, calls, created, creates, lastApplied>>

\* The slot's last invocation, if any, is over.
Free(p) == inv[p].pc \in {"idle", "returned", "raised"}

\* The trigger calls a handler with an event: handler(event, context).
Invoke(p, kind, body, pathId) ==
    /\ Free(p)
    /\ calls' = calls + 1
    /\ inv' = [inv EXCEPT ![p] =
                  [Idle EXCEPT !.pc = "entered", !.kind = kind,
                               !.body = body, !.pathId = pathId]]
    /\ UNCHANGED <<store, clock, lastTimestamp, created, creates, lastApplied>>

InvokeCreate(p, limit) ==
    /\ calls < limit
    /\ \E body \in Bodies : Invoke(p, "create", body, <<>>)

InvokeUpdate(p, limit) ==
    /\ calls < limit
    /\ \E body \in Bodies : \E pathId \in DOMAIN store \cup {ForeignId} :
          Invoke(p, "update", body, pathId)

(* ------------------------- create (create.py) ------------------------- *)

\* Mutant of CreateRejects: the wrong field is looked for.
CreateRejectsWrongField(data) == "checked" \notin DOMAIN data

\* if 'text' not in data
CreateRejects(data) == "text" \notin DOMAIN data

\* Mutant of Uuid1Timestamp: the last time field handed out is not consulted.
Uuid1TimestampNoBump(now, last) == now

\* The time field uuid.uuid1() uses: the clock, pushed past the last one handed out.
Uuid1Timestamp(now, last) == IF now <= last THEN last + 1 ELSE now

\* str(uuid.uuid1()): the time field, then the fixed clock-sequence and node part.
UuidStr(ts) == Digits(ts) \o <<"-", "n">>

\* Mutant of NewItem: checked is taken from the request when it has one.
NewItemTakesChecked(id, data, timestamp) ==
    [k \in {"id", "text", "checked", "createdAt", "updatedAt"} |->
        CASE k = "id" -> PyStr(id)
          [] k = "text" -> data["text"]
          [] k = "checked" ->
                IF "checked" \in DOMAIN data THEN data["checked"] ELSE PyBool(FALSE)
          [] k = "createdAt" -> timestamp
          [] k = "updatedAt" -> timestamp]

\* The item literal of create.
NewItem(id, data, timestamp) ==
    [k \in {"id", "text", "checked", "createdAt", "updatedAt"} |->
        CASE k = "id" -> PyStr(id)
          [] k = "text" -> data["text"]
          [] k = "checked" -> PyBool(FALSE)
          [] k = "createdAt" -> timestamp
          [] k = "updatedAt" -> timestamp]

\* The response of create.
CreateResponse(item) == [statusCode |-> 200, body |-> JsonDumps(item)]

\* create, lines 17-22: parse the body, validate it, read the clock.
CreateValidate(p) ==
    /\ inv[p].pc = "entered"
    /\ inv[p].kind = "create"
    /\ LET data == JsonLoads(inv[p].body)
       IN  IF CreateRejects(data)
           THEN inv' = [inv EXCEPT ![p].data = data, ![p].pc = "raised",
                                   ![p].error = "Couldn't create the todo item."]
           ELSE inv' = [inv EXCEPT ![p].data = data, ![p].pc = "build",
                                   ![p].timestamp = PyStr(StrFloat(clock))]
    /\ UNCHANGED <<store, clock, lastTimestamp, calls, created, creates, lastApplied>>

\* create, lines 24-32: build the item; data['text'] raises KeyError when absent.
CreateBuildItem(p) ==
    /\ inv[p].pc = "build"
    /\ IF "text" \notin DOMAIN inv[p].data
       THEN /\ inv' = [inv EXCEPT ![p].pc = "raised", ![p].error = "KeyError"]
            /\ UNCHANGED lastTimestamp
       ELSE LET ts == Uuid1Timestamp(clock, lastTimestamp)
            IN  /\ lastTimestamp' = ts
                /\ inv' = [inv EXCEPT ![p].pc = "put",
                               ![p].item = NewItem(UuidStr(ts), inv[p].data, inv[p].timestamp)]
    /\ UNCHANGED <<store, clock, calls, created, creates, lastApplied>>

\* create, lines 35-43: write the item and return the response.
CreatePut(p) ==
    /\ inv[p].pc = "put"
    /\ store' = PutItem(store, inv[p].item)
    /\ inv' = [inv EXCEPT ![p].pc = "returned", ![p].writes = @ + 1,
                          ![p].response = CreateResponse(inv[p].item)]
    /\ created' = created \cup {inv[p].item["id"].s}
    /\ creates' = creates + 1
    /\ UNCHANGED <<clock, lastTimestamp, calls, lastApplied>>

(* ------------------------- update (update.py) ------------------------- *)

\* Mutant of UpdateRejects: "or 'checked' not in data" is left out.
UpdateRejectsTextOnly(data) == "text" \notin DOMAIN data

\* if 'text' not in data or 'checked' not in data
UpdateRejects(data) == "text" \notin DOMAIN data \/ "checked" \notin DOMAIN data

\* The response of update.
UpdateResponse(attributes) == [statusCode |-> 200, body |-> JsonDumpsDecimal(attributes)]

\* update, lines 17-23: parse the body, validate it, read the clock.
UpdateValidate(p) ==
    /\ inv[p].pc = "entered"
    /\ inv[p].kind = "update"
    /\ LET data == JsonLoads(inv[p].body)
       IN  IF UpdateRejects(data)
           THEN inv' = [inv EXCEPT ![p].data = data, ![p].pc = "raised",
                                   ![p].error = "Couldn't update the todo item."]
           ELSE inv' = [inv EXCEPT ![p].data = data, ![p].pc = "update_item",
                                   ![p].timestamp = PyInt(IntMillis(clock))]
    /\ UNCHANGED <<store, clock, lastTimestamp, calls, created, creates, lastApplied>>

\* update, lines 25-53: update_item and the response built from what it returns;
\* data['text'] and data['checked'] raise KeyError when absent, before the call.
UpdateCall(p) ==
    /\ inv[p].pc = "update_item"
    /\ IF "text" \notin DOMAIN inv[p].data \/ "checked" \notin DOMAIN inv[p].data
       THEN /\ inv' = [inv EXCEPT ![p].pc = "raised", ![p].error = "KeyError"]
            /\ UNCHANGED <<store, lastApplied>>
       ELSE LET key == inv[p].pathId
                after == UpdateItem(store, key, inv[p].data["text"],
                                    inv[p].data["checked"], inv[p].timestamp)
            IN  /\ store' = after
                /\ inv' = [inv EXCEPT ![p].pc = "returned", ![p].writes = @ + 1,
                               ![p].item = AllNew(after, key),
                               ![p].response = UpdateResponse(AllNew(after, key))]
                /\ lastApplied' =
                      [i \in DOMAIN lastApplied \cup {key} |->
                          IF i = key
                          THEN [text |-> inv[p].data["text"],
                                checked |-> inv[p].data["checked"],
                                updatedAt |-> inv[p].timestamp]
                          ELSE lastApplied[i]]
    /\ UNCHANGED <<clock, lastTimestamp, calls, created, creates>>

(* -------------------------- specifications ---------------------------- *)

Next ==
    \/ Tick
    \/ \E p \in Procs : InvokeCreate(p, MaxOverlapCalls)
    \/ \E p \in Procs : InvokeUpdate(p, MaxOverlapCalls)
    \/ \E p \in Procs : CreateValidate(p)
    \/ \E p \in Procs : CreateBuildItem(p)
    \/ \E p \in Procs : CreatePut(p)
    \/ \E p \in Procs : UpdateValidate(p)
    \/ \E p \in Procs : UpdateCall(p)

\* Invocations overlap freely.
Spec == Init /\ [][Next]_vars

NextSeq ==
    \/ Tick
    \/ InvokeCreate("p", MaxCalls)
    \/ InvokeUpdate("p", MaxCalls)
    \/ CreateValidate("p")
    \/ CreateBuildItem("p")
    \/ CreatePut("p")
    \/ UpdateValidate("p")
    \/ UpdateCall("p")

\* The calls are made one after another, each started when the last one is over.
SeqSpec == Init /\ [][NextSeq]_vars

(* ------------------------------ claims -------------------------------- *)

\* The handler in slot p has finished, by returning or by raising.
Over(p) == inv[p].pc \in {"returned", "raised"}

\* This step is slot p's update_item call going through.
UpdateWrites(p) == inv[p].pc = "update_item" /\ inv'[p].pc = "returned"

\* This step is slot p's put_item call.
CreateWrites(p) == inv[p].pc = "put" /\ inv'[p].pc = "returned"

DigitValue(c) == CHOOSE d \in 0 .. 9 : DigitChars[d + 1] = c

RECURSIVE ParseDigits(_)
\* The number a string of decimal digits writes.
ParseDigits(s) ==
    IF s = <<>> THEN 0
    ELSE ParseDigits(SubSeq(s, 1, Len(s) - 1)) * 10 + DigitValue(s[Len(s)])

RECURSIVE Pow10(_)
Pow10(k) == IF k = 0 THEN 1 ELSE 10 * Pow10(k - 1)

\* The number a string "<digits>.<digits>" writes, times TicksPerSec.
ParseFloatScaled(s) ==
    LET dot == CHOOSE i \in 1 .. Len(s) : s[i] = "."
        frac == SubSeq(s, dot + 1, Len(s))
    IN  ParseDigits(SubSeq(s, 1, dot - 1)) * TicksPerSec
        + (ParseDigits(frac) * TicksPerSec) \div Pow10(Len(frac))

\* The numeric value of a stored updatedAt, times TicksPerSec: a number as it is,
\* a string as the number it writes.
Numeric(a) == IF a.type = "N" THEN a.n * TicksPerSec ELSE ParseFloatScaled(a.s)

\* C1: a create call whose body has text, once over, has returned (not raised) a
\* response with statusCode 200 whose body has the text of the request, checked
\* false, and non-empty strings as id, createdAt and updatedAt.
C1_CreateResponse ==
    \A p \in Procs :
        (inv[p].kind = "create" /\ "text" \in DOMAIN inv[p].body /\ Over(p)) =>
            /\ inv[p].pc = "returned"
            /\ inv[p].response.statusCode = 200
            /\ {"id", "text", "checked", "createdAt", "updatedAt"}
                   \subseteq DOMAIN inv[p].response.body
            /\ inv[p].response.body["text"] = inv[p].body["text"]
            /\ inv[p].response.body["checked"] = JBoolean(FALSE)
            /\ \A k \in {"id", "createdAt", "updatedAt"} :
                   /\ inv[p].response.body[k].type = "string"
                   /\ Len(inv[p].response.body[k].s) > 0

\* A create call with text and with checked = true in its body has returned.
C1_Witness ==
    \E p \in Procs :
        /\ inv[p].kind = "create" /\ inv[p].pc = "returned"
        /\ {"text", "checked"} \subseteq DOMAIN inv[p].body
        /\ inv[p].body["checked"] = JBoolean(TRUE)

\* A create call whose body lacks text never gets past validation: it raises the
\* validation error and has made no store write.
C2_CreateRaised ==
    \A p \in Procs :
        (inv[p].kind = "create" /\ "text" \notin DOMAIN inv[p].body
            /\ inv[p].pc # "entered") =>
            /\ inv[p].pc = "raised"
            /\ inv[p].error = "Couldn't create the todo item."
            /\ inv[p].writes = 0

\* The step in which such a call raises leaves the store as it was.
C2_RaiseStep ==
    \A p \in Procs :
        (inv[p].kind = "create" /\ "text" \notin DOMAIN inv[p].body
            /\ inv[p].pc = "entered" /\ inv'[p].pc # "entered") =>
            store' = store

\* C2: a create call whose body lacks text raises an error and performs no store
\* write: the store after the call is the store before it.
C2_CreateMissingText == []C2_CreateRaised /\ [][C2_RaiseStep]_vars

\* A create call without text (but with checked) has raised while the store holds an item.
C2_Witness ==
    \E p \in Procs :
        /\ inv[p].kind = "create" /\ inv[p].pc = "raised"
        /\ DOMAIN inv[p].body = {"checked"}
        /\ DOMAIN store # {}

\* An update call whose body has text and checked, once over, has returned a
\* response with statusCode 200 whose body has the path id and the text and
\* checked of the request.
C3_Response ==
    \A p \in Procs :
        (inv[p].kind = "update" /\ {"text", "checked"} \subseteq DOMAIN inv[p].body
            /\ Over(p)) =>
            /\ inv[p].pc = "returned"
            /\ inv[p].response.statusCode = 200
            /\ {"id", "text", "checked"} \subseteq DOMAIN inv[p].response.body
            /\ inv[p].response.body["id"] = JString(inv[p].pathId)
            /\ inv[p].response.body["text"] = inv[p].body["text"]
            /\ inv[p].response.body["checked"] = inv[p].body["checked"]

\* When its update_item goes through, the stored record holds the same values.
C3_Stored ==
    \A p \in Procs :
        UpdateWrites(p) =>
            /\ inv[p].pathId \in DOMAIN store'
            /\ {"id", "text", "checked"} \subseteq DOMAIN store'[inv[p].pathId]
            /\ store'[inv[p].pathId]["id"] = DdbS(inv[p].pathId)
            /\ store'[inv[p].pathId]["text"] = DdbS(inv[p].body["text"].s)
            /\ store'[inv[p].pathId]["checked"] = DdbBOOL(inv[p].body["checked"].b)

\* C3: an update call whose body has text and checked and whose path id names an
\* item returns statusCode 200 and a body with that id and the text and checked of
\* the request, and the stored record for that id holds the same values.
C3_UpdateResponse == []C3_Response /\ [][C3_Stored]_vars

\* An update of an item that create made has returned, with text and checked
\* other than the ones the item had.
C3_Witness ==
    \E p \in Procs :
        /\ inv[p].kind = "update" /\ inv[p].pc = "returned"
        /\ inv[p].pathId \in created
        /\ inv[p].body["checked"] = JBoolean(TRUE)
        /\ \E q \in Procs :
               /\ inv[q].kind = "create" /\ inv[q].pc = "returned"
               /\ inv[q].item["id"].s = inv[p].pathId
               /\ inv[q].body["text"] # inv[p].body["text"]

\* The original C4, for the items create made: every update_item on a stored id
\* leaves updatedAt strictly greater (numerically) than it was.
C4_StrictlyGreater ==
    [][\A p \in Procs :
          (UpdateWrites(p) /\ inv[p].pathId \in created) =>
              Numeric(store'[inv[p].pathId]["updatedAt"])
                  > Numeric(store[inv[p].pathId]["updatedAt"])]_vars

\* C4, amended: with calls made one after another, every update_item on a stored
\* id leaves updatedAt no smaller (numerically) than it was, and strictly greater
\* when the value it replaces is the one create wrote.
C4_NotSmaller ==
    [][\A p \in Procs :
          (UpdateWrites(p) /\ inv[p].pathId \in DOMAIN store) =>
              /\ Numeric(store'[inv[p].pathId]["updatedAt"])
                     >= Numeric(store[inv[p].pathId]["updatedAt"])
              /\ store[inv[p].pathId]["updatedAt"].type = "S" =>
                     Numeric(store'[inv[p].pathId]["updatedAt"])
                         > Numeric(store[inv[p].pathId]["updatedAt"])]_vars

\* The third call of a run that created one item and upserted none has returned:
\* it is an update of that item, whose updatedAt is now a number.
C4_Witness ==
    /\ calls = 3
    /\ inv["p"].kind = "update" /\ inv["p"].pc = "returned"
    /\ inv["p"].pathId \in created
    /\ creates = 1
    /\ DOMAIN store = created
    /\ store[inv["p"].pathId]["updatedAt"].type = "N"

\* An update call whose body lacks text or checked never gets past validation:
\* it raises the validation error and has made no store write.
C5_UpdateRaised ==
    \A p \in Procs :
        (inv[p].kind = "update" /\ ~({"text", "checked"} \subseteq DOMAIN inv[p].body)
            /\ inv[p].pc # "entered") =>
            /\ inv[p].pc = "raised"
            /\ inv[p].error = "Couldn't update the todo item."
            /\ inv[p].writes = 0

\* The step in which such a call raises leaves the store as it was.
C5_RaiseStep ==
    \A p \in Procs :
        (inv[p].kind = "update" /\ ~({"text", "checked"} \subseteq DOMAIN inv[p].body)
            /\ inv[p].pc = "entered" /\ inv'[p].pc # "entered") =>
            store' = store

\* C5: an update call whose body lacks text or lacks checked raises an error and
\* performs no store write, whether or not its path id names a stored item.
C5_UpdateMissingField == []C5_UpdateRaised /\ [][C5_RaiseStep]_vars

\* An update without checked has raised, addressed to a stored item.
C5_Witness ==
    \E p \in Procs :
        /\ inv[p].kind = "update" /\ inv[p].pc = "raised"
        /\ DOMAIN inv[p].body = {"text"}
        /\ inv[p].pathId \in DOMAIN store

\* As many items came from create as put_item calls were made by create, all of
\* them are stored, and with no update applied they are all the store holds.
C6_Count ==
    /\ Cardinality(created) = creates
    /\ created \subseteq DOMAIN store
    /\ (DOMAIN lastApplied = {}) => Cardinality(DOMAIN store) = creates

\* put_item writes under an id no stored item has and leaves the stored items alone.
C6_PutStep ==
    \A p \in Procs :
        CreateWrites(p) =>
            /\ inv[p].item["id"].s \notin DOMAIN store
            /\ \A i \in DOMAIN store : store'[i] = store[i]

\* C6: ids are unique and never reassigned: every successful create, two calls
\* with identical input included, stores a new item under an id no stored item
\* has, so the stored items number the successful creates and none is overwritten.
C6_UniqueIds == []C6_Count /\ [][C6_PutStep]_vars

\* Two create calls with the same body have both returned.
C6_Witness ==
    /\ inv["p"].kind = "create" /\ inv["p"].pc = "returned"
    /\ inv["q"].kind = "create" /\ inv["q"].pc = "returned"
    /\ inv["p"].body = inv["q"].body
    /\ creates = 2

\* The original C7: the ids in the store are exactly the ids create generated.
C7_OnlyCreated == DOMAIN store = created

\* C7, amended: the ids in the store are exactly the ids create generated and
\* the path ids update_item was applied to; a record that did not come from
\* create holds id, text, checked and updatedAt, and no createdAt.
C7_CreatedOrUpserted ==
    /\ DOMAIN store = created \cup DOMAIN lastApplied
    /\ \A i \in DOMAIN store \ created :
           DOMAIN store[i] = {"id", "text", "checked", "updatedAt"}

\* An update addressed to an id that names no item has returned, beside a created item.
C7_Witness ==
    /\ ForeignId \in DOMAIN store
    /\ created # {}
    /\ \E p \in Procs : inv[p].kind = "update" /\ inv[p].pc = "returned"
                          /\ inv[p].pathId = ForeignId

\* C8: last write wins: the text, checked and updatedAt of a record that updates
\* were applied to are all those of the one invocation whose update_item ran last.
C8_LastWriteWins ==
    \A i \in DOMAIN lastApplied :
        /\ i \in DOMAIN store
        /\ {"text", "checked", "updatedAt"} \subseteq DOMAIN store[i]
        /\ store[i]["text"] = Serialize(lastApplied[i].text)
        /\ store[i]["checked"] = Serialize(lastApplied[i].checked)
        /\ store[i]["updatedAt"] = Serialize(lastApplied[i].updatedAt)

\* Two overlapping updates of one id have returned, differing in text and checked:
\* the one that read the clock first was applied last.
C8_Witness ==
    /\ inv["p"].kind = "update" /\ inv["p"].pc = "returned"
    /\ inv["q"].kind = "update" /\ inv["q"].pc = "returned"
    /\ inv["p"].pathId = inv["q"].pathId
    /\ inv["p"].body["text"] # inv["q"].body["text"]
    /\ inv["p"].body["checked"] # inv["q"].body["checked"]
    /\ inv["p"].timestamp.n < inv["q"].timestamp.n
    /\ lastApplied[inv["p"].pathId].updatedAt = inv["p"].timestamp

\* C9: every stored item has a text attribute.
C9_TextPresent == \A i \in DOMAIN store : "text" \in DOMAIN store[i]

\* The store holds an item create made and one an update made under an id
\* that no create produced.
C9_Witness ==
    /\ created # {}
    /\ DOMAIN store \ created # {}

\* C10: update_item on id X leaves every record under another id as it was and
\* adds none; of a stored X it changes only text, checked and updatedAt: id and
\* createdAt keep their values.
C10_Frame ==
    [][\A p \in Procs :
          UpdateWrites(p) =>
              /\ DOMAIN store' = DOMAIN store \cup {inv[p].pathId}
              /\ \A i \in DOMAIN store \ {inv[p].pathId} : store'[i] = store[i]
              /\ inv[p].pathId \in DOMAIN store =>
                     /\ DOMAIN store[inv[p].pathId] \subseteq DOMAIN store'[inv[p].pathId]
                     /\ DOMAIN store'[inv[p].pathId] \ DOMAIN store[inv[p].pathId]
                            \subseteq {"text", "checked", "updatedAt"}
                     /\ \A k \in DOMAIN store[inv[p].pathId]
                                   \ {"text", "checked", "updatedAt"} :
                            store'[inv[p].pathId][k] = store[inv[p].pathId][k]]_vars

\* An item that create made has been updated while the store held another record.
C10_Witness ==
    /\ inv["p"].kind = "update" /\ inv["p"].pc = "returned"
    /\ inv["p"].pathId \in created
    /\ Cardinality(DOMAIN store) >= 2
    /\ store[inv["p"].pathId]["createdAt"].type = "S"
    /\ store[inv["p"].pathId]["updatedAt"].type = "N"

====
